---- MODULE Spec2Model ----
(***************************************************************************)
(* Model of src/src/rcpp_sparsemat.cpp: the CSC sparse-matrix transpose    *)
(* (sp_transpose, spamx_transpose) and the densification routines          *)
(* (sp_to_dense, spamx_to_dense, sp_to_dense_transposed,                   *)
(* spamx_to_dense_transposed).                                             *)
(*                                                                         *)
(* C++ arrays are functions over 0..n-1, so every index below is the       *)
(* index the source uses.  All counts in the model are far below 2^31, so  *)
(* int and size_t arithmetic is exact and the two index widths differ only *)
(* in which function of the source is executed.                            *)
(***************************************************************************)
EXTENDS Integers, FiniteSets, Sequences, TLC

\* ---- bounds of the model ----
MaxRows == 2
MaxCols == 4
MaxNnz == 3
MaxVal == 1
MaxGarbage == 1

VARIABLES sp_matrix, op, out, oob, orig, aux
vars == <<sp_matrix, op, out, oob, orig, aux>>

\* ---- arrays ----
Arr(n, v) == [k \in 0..(n - 1) |-> v]
InB(a, k) == k \in DOMAIN a
\* a[k] as an rvalue; g is what an out-of-bounds read yields
Rd(a, k, g) == IF InB(a, k) THEN a[k] ELSE g
\* a[k] = v; an out-of-bounds write leaves the array itself unchanged
Wr(a, k, v) == IF InB(a, k) THEN [a EXCEPT ![k] = v] ELSE a

Pair(a, b) == [k \in 0..1 |-> IF k = 0 THEN a ELSE b]

\* ---- labels: an R NULL, or a character vector ----
NULL == [null |-> TRUE, names |-> Arr(0, "")]
Names(tag, n) == [null |-> FALSE, names |-> [k \in 0..(n - 1) |-> <<tag, k>>]]

\* Rcpp::dgCMatrix / Rcpp::spamx64 out(nr, nc, ne): a freshly allocated
\* nr x nc matrix with room for ne entries
dgCMatrix(nr, nc, ne) ==
    [Dim |-> Pair(nr, nc), p |-> Arr(nc + 1, 0), i |-> Arr(ne, 0),
     x |-> Arr(ne, 0), Dimnames |-> Pair(NULL, NULL)]

\* Rcpp::NumericMatrix dense(nr, nc): zero filled, column major
NumericMatrix(nr, nc) == [nrow |-> nr, ncol |-> nc, data |-> Arr(nr * nc, 0)]
\* offset of dense(r, c)
Offset(d, r, c) == r + d.nrow * c

\* ---- sp_transpose ----

\* variant: the labels are handed on without the swap
SwapDimnames_Kept(dn) == dn

\* dimns[0] = sp_matrix.Dimnames[1]; dimns[1] = sp_matrix.Dimnames[0]
SwapDimnames(dn) == Pair(dn[1], dn[0])

\* step 1a: for (r = 0; r <= nrow; ++r) out.p[r] = 0
RECURSIVE ZeroPass(_, _, _)
ZeroPass(st, r, nrow) ==
    IF r <= nrow
    THEN ZeroPass([p |-> Wr(st.p, r, 0), oob |-> st.oob \/ ~InB(st.p, r)],
                  r + 1, nrow)
    ELSE st

\* variant: the count goes to out.p[ sp_matrix.i[e] ], without the + 1
RECURSIVE CountPass_NoShift(_, _, _, _, _)
CountPass_NoShift(st, M, e, nelem, g) ==
    IF e < nelem
    THEN LET k == Rd(M.i, e, g)
         IN  CountPass_NoShift([p |-> Wr(st.p, k, Rd(st.p, k, g) + 1),
                                oob |-> st.oob \/ ~InB(M.i, e) \/ ~InB(st.p, k)],
                               M, e + 1, nelem, g)
    ELSE st

\* step 1b: for (e = 0; e < nelem; ++e) ++out.p[ sp_matrix.i[e] + 1 ]
RECURSIVE CountPass(_, _, _, _, _)
CountPass(st, M, e, nelem, g) ==
    IF e < nelem
    THEN LET k == Rd(M.i, e, g) + 1
         IN  CountPass([p |-> Wr(st.p, k, Rd(st.p, k, g) + 1),
                        oob |-> st.oob \/ ~InB(M.i, e) \/ ~InB(st.p, k)],
                       M, e + 1, nelem, g)
    ELSE st

\* variant: the prefix sum stops one slot early (r < nrow)
RECURSIVE PrefixSum_Short(_, _, _, _)
PrefixSum_Short(st, r, nrow, g) ==
    IF r < nrow
    THEN PrefixSum_Short([p |-> Wr(st.p, r, Rd(st.p, r, g) + Rd(st.p, r - 1, g)),
                          oob |-> st.oob \/ ~InB(st.p, r) \/ ~InB(st.p, r - 1)],
                         r + 1, nrow, g)
    ELSE st

\* step 2: for (r = 1; r <= nrow; ++r) out.p[r] += out.p[r - 1]
RECURSIVE PrefixSum(_, _, _, _)
PrefixSum(st, r, nrow, g) ==
    IF r <= nrow
    THEN PrefixSum([p |-> Wr(st.p, r, Rd(st.p, r, g) + Rd(st.p, r - 1, g)),
                    oob |-> st.oob \/ ~InB(st.p, r) \/ ~InB(st.p, r - 1)],
                   r + 1, nrow, g)
    ELSE st

\* variant: the column id is never advanced
AdvanceCid_Stuck(p, e, cid) == cid

\* for (; e >= sp_matrix.p[cid+1]; ++cid);
RECURSIVE AdvanceCid(_, _, _)
AdvanceCid(p, e, cid) ==
    IF InB(p, cid + 1) /\ e >= p[cid + 1] THEN AdvanceCid(p, e, cid + 1) ELSE cid

\* variant: the row id is stored where the column id belongs
ScatterStep_RowId(st, M, e, g) ==
    LET rid == Rd(M.i, e, g)
        val == Rd(M.x, e, g)
        cid == AdvanceCid(M.p, e, st.cid)
        pos == Rd(st.p, rid, g)
    IN  [p   |-> Wr(st.p, rid, pos + 1),
         x   |-> Wr(st.x, pos, val),
         i   |-> Wr(st.i, pos, rid),
         cid |-> cid,
         pos |-> Wr(st.pos, e, pos),
         oob |-> st.oob \/ ~InB(M.i, e) \/ ~InB(M.x, e) \/ ~InB(M.p, cid + 1)
                        \/ ~InB(st.p, rid) \/ ~InB(st.x, pos) \/ ~InB(st.i, pos)]

\* variant: the write cursor out.p[rid] is decremented
ScatterStep_Decrement(st, M, e, g) ==
    LET rid == Rd(M.i, e, g)
        val == Rd(M.x, e, g)
        cid == AdvanceCid(M.p, e, st.cid)
        pos == Rd(st.p, rid, g)
    IN  [p   |-> Wr(st.p, rid, pos - 1),
         x   |-> Wr(st.x, pos, val),
         i   |-> Wr(st.i, pos, cid),
         cid |-> cid,
         pos |-> Wr(st.pos, e, pos),
         oob |-> st.oob \/ ~InB(M.i, e) \/ ~InB(M.x, e) \/ ~InB(M.p, cid + 1)
                        \/ ~InB(st.p, rid) \/ ~InB(st.x, pos) \/ ~InB(st.i, pos)]

\* variant: the write cursor out.p[rid] is not incremented
ScatterStep_NoCursor(st, M, e, g) ==
    LET rid == Rd(M.i, e, g)
        val == Rd(M.x, e, g)
        cid == AdvanceCid(M.p, e, st.cid)
        pos == Rd(st.p, rid, g)
    IN  [p   |-> st.p,
         x   |-> Wr(st.x, pos, val),
         i   |-> Wr(st.i, pos, cid),
         cid |-> cid,
         pos |-> Wr(st.pos, e, pos),
         oob |-> st.oob \/ ~InB(M.i, e) \/ ~InB(M.x, e) \/ ~InB(M.p, cid + 1)
                        \/ ~InB(st.p, rid) \/ ~InB(st.x, pos) \/ ~InB(st.i, pos)]

\* step 3, one iteration of the loop body for entry e; pos records the write
\* position of every iteration
ScatterStep(st, M, e, g) ==
    LET rid == Rd(M.i, e, g)
        val == Rd(M.x, e, g)
        cid == AdvanceCid(M.p, e, st.cid)
        pos == Rd(st.p, rid, g)
    IN  [p   |-> Wr(st.p, rid, pos + 1),
         x   |-> Wr(st.x, pos, val),
         i   |-> Wr(st.i, pos, cid),
         cid |-> cid,
         pos |-> Wr(st.pos, e, pos),
         oob |-> st.oob \/ ~InB(M.i, e) \/ ~InB(M.x, e) \/ ~InB(M.p, cid + 1)
                        \/ ~InB(st.p, rid) \/ ~InB(st.x, pos) \/ ~InB(st.i, pos)]

\* step 3: for (e = 0; e < nelem; ++e) { ... }
RECURSIVE ScatterPass(_, _, _, _, _)
ScatterPass(st, M, e, nelem, g) ==
    IF e < nelem
    THEN ScatterPass(ScatterStep(st, M, e, g), M, e + 1, nelem, g)
    ELSE st

\* step 4 loop: for (r = 1; r <= nrow; ++r) std::swap(off, out.p[r])
RECURSIVE ShiftOffsets(_, _, _, _, _)
ShiftOffsets(st, off, r, nrow, g) ==
    IF r <= nrow
    THEN ShiftOffsets([p |-> Wr(st.p, r, off), oob |-> st.oob \/ ~InB(st.p, r)],
                      Rd(st.p, r, g), r + 1, nrow, g)
    ELSE st

\* variant: the offsets are left as the scatter pass left them
RestorePass_Skipped(st, nrow, g) == st

\* step 4: auto off = out.p[0]; out.p[0] = 0; then the swap loop
RestorePass(st, nrow, g) ==
    ShiftOffsets([p |-> Wr(st.p, 0, 0), oob |-> st.oob \/ ~InB(st.p, 0)],
                 Rd(st.p, 0, g), 1, nrow, g)

\* the four passes on a freshly constructed output matrix o
TransposePasses(M, o, nrow, nelem, g) ==
    LET s1 == ZeroPass([p |-> o.p, oob |-> FALSE], 0, nrow)
        s2 == CountPass(s1, M, 0, nelem, g)
        s3 == PrefixSum(s2, 1, nrow, g)
        s4 == ScatterPass([p |-> s3.p, x |-> o.x, i |-> o.i, cid |-> 0,
                           pos |-> Arr(nelem, 0), oob |-> s3.oob],
                          M, 0, nelem, g)
        s5 == RestorePass([p |-> s4.p, oob |-> s4.oob], nrow, g)
    IN  [res |-> [o EXCEPT !.p = s5.p, !.i = s4.i, !.x = s4.x], oob |-> s5.oob,
         \* out.p after step 2, out.p after step 3, and pos of every iteration
         aux |-> [prefix |-> s3.p, cursor |-> s4.p, pos |-> s4.pos]]

sp_transpose(M, g) ==
    LET nrow  == M.Dim[0]
        ncol  == M.Dim[1]
        nelem == Rd(M.p, ncol, g)
        o     == [dgCMatrix(ncol, nrow, nelem)
                    EXCEPT !.Dimnames = SwapDimnames(M.Dimnames)]
        t     == TransposePasses(M, o, nrow, nelem, g)
    IN  [res |-> t.res, oob |-> t.oob \/ ~InB(M.p, ncol), aux |-> t.aux]

\* ---- spamx_transpose: the same passes over size_t indices ----

\* step 1a: for (r = 0; r <= nrow; ++r) out.p[r] = 0
RECURSIVE spamx_ZeroPass(_, _, _)
spamx_ZeroPass(st, r, nrow) ==
    IF r <= nrow
    THEN spamx_ZeroPass([p |-> Wr(st.p, r, 0), oob |-> st.oob \/ ~InB(st.p, r)],
                  r + 1, nrow)
    ELSE st

\* step 1b: for (e = 0; e < nelem; ++e) ++out.p[ sp_matrix.i[e] + 1 ]
RECURSIVE spamx_CountPass(_, _, _, _, _)
spamx_CountPass(st, M, e, nelem, g) ==
    IF e < nelem
    THEN LET k == Rd(M.i, e, g) + 1
         IN  spamx_CountPass([p |-> Wr(st.p, k, Rd(st.p, k, g) + 1),
                        oob |-> st.oob \/ ~InB(M.i, e) \/ ~InB(st.p, k)],
                       M, e + 1, nelem, g)
    ELSE st

\* step 2: for (r = 1; r <= nrow; ++r) out.p[r] += out.p[r - 1]
RECURSIVE spamx_PrefixSum(_, _, _, _)
spamx_PrefixSum(st, r, nrow, g) ==
    IF r <= nrow
    THEN spamx_PrefixSum([p |-> Wr(st.p, r, Rd(st.p, r, g) + Rd(st.p, r - 1, g)),
                    oob |-> st.oob \/ ~InB(st.p, r) \/ ~InB(st.p, r - 1)],
                   r + 1, nrow, g)
    ELSE st

\* variant: the column id advances by at most one per entry
spamx_AdvanceCid_Once(p, e, cid) ==
    IF InB(p, cid + 1) /\ e >= p[cid + 1] THEN cid + 1 ELSE cid

\* for (; e >= sp_matrix.p[cid+1]; ++cid);
RECURSIVE spamx_AdvanceCid(_, _, _)
spamx_AdvanceCid(p, e, cid) ==
    IF InB(p, cid + 1) /\ e >= p[cid + 1] THEN spamx_AdvanceCid(p, e, cid + 1) ELSE cid

\* step 3, one iteration of the loop body for entry e
spamx_ScatterStep(st, M, e, g) ==
    LET rid == Rd(M.i, e, g)
        val == Rd(M.x, e, g)
        cid == spamx_AdvanceCid(M.p, e, st.cid)
        pos == Rd(st.p, rid, g)
    IN  [p   |-> Wr(st.p, rid, pos + 1),
         x   |-> Wr(st.x, pos, val),
         i   |-> Wr(st.i, pos, cid),
         cid |-> cid,
         pos |-> Wr(st.pos, e, pos),
         oob |-> st.oob \/ ~InB(M.i, e) \/ ~InB(M.x, e) \/ ~InB(M.p, cid + 1)
                        \/ ~InB(st.p, rid) \/ ~InB(st.x, pos) \/ ~InB(st.i, pos)]

\* step 3: for (e = 0; e < nelem; ++e) { ... }
RECURSIVE spamx_ScatterPass(_, _, _, _, _)
spamx_ScatterPass(st, M, e, nelem, g) ==
    IF e < nelem
    THEN spamx_ScatterPass(spamx_ScatterStep(st, M, e, g), M, e + 1, nelem, g)
    ELSE st

\* step 4 loop: for (r = 1; r <= nrow; ++r) std::swap(off, out.p[r])
RECURSIVE spamx_ShiftOffsets(_, _, _, _, _)
spamx_ShiftOffsets(st, off, r, nrow, g) ==
    IF r <= nrow
    THEN spamx_ShiftOffsets([p |-> Wr(st.p, r, off), oob |-> st.oob \/ ~InB(st.p, r)],
                      Rd(st.p, r, g), r + 1, nrow, g)
    ELSE st

\* step 4: auto off = out.p[0]; out.p[0] = 0; then the swap loop
spamx_RestorePass(st, nrow, g) ==
    spamx_ShiftOffsets([p |-> Wr(st.p, 0, 0), oob |-> st.oob \/ ~InB(st.p, 0)],
                 Rd(st.p, 0, g), 1, nrow, g)

\* the four passes on a freshly constructed output matrix o
spamx_TransposePasses(M, o, nrow, nelem, g) ==
    LET s1 == spamx_ZeroPass([p |-> o.p, oob |-> FALSE], 0, nrow)
        s2 == spamx_CountPass(s1, M, 0, nelem, g)
        s3 == spamx_PrefixSum(s2, 1, nrow, g)
        s4 == spamx_ScatterPass([p |-> s3.p, x |-> o.x, i |-> o.i, cid |-> 0,
                           pos |-> Arr(nelem, 0), oob |-> s3.oob],
                          M, 0, nelem, g)
        s5 == spamx_RestorePass([p |-> s4.p, oob |-> s4.oob], nrow, g)
    IN  [res |-> [o EXCEPT !.p = s5.p, !.i = s4.i, !.x = s4.x], oob |-> s5.oob,
         \* out.p after step 2, out.p after step 3, and pos of every iteration
         aux |-> [prefix |-> s3.p, cursor |-> s4.p, pos |-> s4.pos]]

spamx_transpose(M, g) ==
    LET nrow  == M.Dim[0]
        ncol  == M.Dim[1]
        nelem == Rd(M.p, ncol, g)
        o     == [dgCMatrix(ncol, nrow, nelem)
                    EXCEPT !.Dimnames = SwapDimnames(M.Dimnames)]
        t     == spamx_TransposePasses(M, o, nrow, nelem, g)
    IN  [res |-> t.res, oob |-> t.oob \/ ~InB(M.p, ncol), aux |-> t.aux]

\* ---- sp_to_dense, sp_to_dense_transposed ----

\* one iteration: if (e == c_end) { ++c; c_end = p[c + 1]; } then the write;
\* tr selects dense(c, i[e]) over dense(i[e], c); cols records the column of
\* every write
DenseStep(st, M, e, tr, g) ==
    LET adv   == (e = st.c_end)
        c     == IF adv THEN st.c + 1 ELSE st.c
        c_end == IF adv THEN Rd(M.p, c + 1, g) ELSE st.c_end
        rid   == Rd(M.i, e, g)
        r     == IF tr THEN c ELSE rid
        k     == IF tr THEN rid ELSE c
        off   == Offset(st.dense, r, k)
    IN  [dense |-> [st.dense EXCEPT !.data = Wr(@, off, Rd(M.x, e, g))],
         c     |-> c,
         c_end |-> c_end,
         cols  |-> Wr(st.cols, e, c),
         oob   |-> st.oob \/ (adv /\ ~InB(M.p, c + 1)) \/ ~InB(M.i, e)
                          \/ ~InB(M.x, e) \/ r >= st.dense.nrow
                          \/ k >= st.dense.ncol]

\* for (e = 0; e < nelem; ++e) { ... }
RECURSIVE DenseLoop(_, _, _, _, _, _)
DenseLoop(st, M, e, nelem, tr, g) ==
    IF e < nelem
    THEN DenseLoop(DenseStep(st, M, e, tr, g), M, e + 1, nelem, tr, g)
    ELSE st

\* size_t c=0, c_end=sp_matrix.p[1]; then the loop
DenseScatter(M, d, nelem, tr, g) ==
    LET s == DenseLoop([dense |-> d, c |-> 0, c_end |-> Rd(M.p, 1, g),
                        cols |-> Arr(nelem, 0), oob |-> ~InB(M.p, 1)],
                       M, 0, nelem, tr, g)
    IN  [res |-> s.dense, oob |-> s.oob,
         \* the column c of the write of every iteration
         aux |-> [cols |-> s.cols]]

sp_to_dense(M, g) ==
    LET nrow  == M.Dim[0]
        ncol  == M.Dim[1]
        nelem == Rd(M.p, ncol, g)
        t     == DenseScatter(M, NumericMatrix(nrow, ncol), nelem, FALSE, g)
    IN  [res |-> t.res, oob |-> t.oob \/ ~InB(M.p, ncol), aux |-> t.aux]

sp_to_dense_transposed(M, g) ==
    LET nrow  == M.Dim[0]
        ncol  == M.Dim[1]
        nelem == Rd(M.p, ncol, g)
        t     == DenseScatter(M, NumericMatrix(ncol, nrow), nelem, TRUE, g)
    IN  [res |-> t.res, oob |-> t.oob \/ ~InB(M.p, ncol), aux |-> t.aux]

\* ---- spamx_to_dense, spamx_to_dense_transposed ----

\* one iteration: if (e == c_end) { ++c; c_end = p[c + 1]; } then the write;
\* tr selects dense(c, i[e]) over dense(i[e], c)
spamx_DenseStep(st, M, e, tr, g) ==
    LET adv   == (e = st.c_end)
        c     == IF adv THEN st.c + 1 ELSE st.c
        c_end == IF adv THEN Rd(M.p, c + 1, g) ELSE st.c_end
        rid   == Rd(M.i, e, g)
        r     == IF tr THEN c ELSE rid
        k     == IF tr THEN rid ELSE c
        off   == Offset(st.dense, r, k)
    IN  [dense |-> [st.dense EXCEPT !.data = Wr(@, off, Rd(M.x, e, g))],
         c     |-> c,
         c_end |-> c_end,
         cols  |-> Wr(st.cols, e, c),
         oob   |-> st.oob \/ (adv /\ ~InB(M.p, c + 1)) \/ ~InB(M.i, e)
                          \/ ~InB(M.x, e) \/ r >= st.dense.nrow
                          \/ k >= st.dense.ncol]

\* for (e = 0; e < nelem; ++e) { ... }
RECURSIVE spamx_DenseLoop(_, _, _, _, _, _)
spamx_DenseLoop(st, M, e, nelem, tr, g) ==
    IF e < nelem
    THEN spamx_DenseLoop(spamx_DenseStep(st, M, e, tr, g), M, e + 1, nelem, tr, g)
    ELSE st

\* size_t c=0, c_end=sp_matrix.p[1]; then the loop
spamx_DenseScatter(M, d, nelem, tr, g) ==
    LET s == spamx_DenseLoop([dense |-> d, c |-> 0, c_end |-> Rd(M.p, 1, g),
                        cols |-> Arr(nelem, 0), oob |-> ~InB(M.p, 1)],
                       M, 0, nelem, tr, g)
    IN  [res |-> s.dense, oob |-> s.oob,
         \* the column c of the write of every iteration
         aux |-> [cols |-> s.cols]]

spamx_to_dense(M, g) ==
    LET nrow  == M.Dim[0]
        ncol  == M.Dim[1]
        nelem == Rd(M.p, ncol, g)
        t     == spamx_DenseScatter(M, NumericMatrix(nrow, ncol), nelem, FALSE, g)
    IN  [res |-> t.res, oob |-> t.oob \/ ~InB(M.p, ncol), aux |-> t.aux]

spamx_to_dense_transposed(M, g) ==
    LET nrow  == M.Dim[0]
        ncol  == M.Dim[1]
        nelem == Rd(M.p, ncol, g)
        t     == spamx_DenseScatter(M, NumericMatrix(ncol, nrow), nelem, TRUE, g)
    IN  [res |-> t.res, oob |-> t.oob \/ ~InB(M.p, ncol), aux |-> t.aux]

\* ---- the matrices the host hands to the kernel ----
Garbage == 0..MaxGarbage

\* value vectors: the kernel only copies values, so each entry carries its own
\* value v0 + e; v0 = 0 gives a stored zero
Values(nnz) == {[e \in 0..(nnz - 1) |-> v0 + e] : v0 \in 0..MaxVal}

\* colPtr[0] = 0, non-decreasing, colPtr[ncol] = nnz
ColPtrs(ncol, nnz) ==
    {p \in [0..ncol -> 0..nnz] :
        /\ p[0] = 0
        /\ p[ncol] = nnz
        /\ \A c \in 0..(ncol - 1) : p[c] <= p[c + 1]}

DimnamesOf(nrow, ncol) ==
    {Pair(NULL, NULL), Pair(Names("r", nrow), Names("c", ncol))}

\* a CSC matrix as the host hands it over
CSC(nrow, ncol, p, i, x, dn) ==
    [Dim |-> Pair(nrow, ncol), p |-> p, i |-> i, x |-> x, Dimnames |-> dn]

Nnz(M) == M.p[M.Dim[1]]

\* strictly increasing row indices within every column slice
Canonical(M) ==
    \A c \in 0..(M.Dim[1] - 1) :
        \A e1, e2 \in ((M.p[c])..(M.p[c + 1] - 1)) \cap DOMAIN M.i :
            e1 < e2 => M.i[e1] < M.i[e2]

\* no (row, col) pair is stored twice
NoDuplicates(M) ==
    \A c \in 0..(M.Dim[1] - 1) :
        \A e1, e2 \in ((M.p[c])..(M.p[c + 1] - 1)) \cap DOMAIN M.i :
            e1 # e2 => M.i[e1] # M.i[e2]

NoResult == [none |-> TRUE]
NoMatrix == [none |-> TRUE]
NoAux == [none |-> TRUE]

\* any well-formed CSC matrix within the bounds: row indices in range, not
\* necessarily sorted within a column
Init ==
    /\ \E nrow \in 0..MaxRows, ncol \in 0..MaxCols, nnz \in 0..MaxNnz :
         \E p \in ColPtrs(ncol, nnz), i \in [0..(nnz - 1) -> 0..(nrow - 1)],
            x \in Values(nnz), dn \in DimnamesOf(nrow, ncol) :
             sp_matrix = CSC(nrow, ncol, p, i, x, dn)
    /\ op = "none"
    /\ out = NoResult
    /\ oob = FALSE
    /\ orig = NoMatrix
    /\ aux = NoAux

\* The runs of a function on M.  Only a run that reads out of bounds depends
\* on what such a read yields, and it reads out of bounds whatever that is.
Runs_sp_transpose(M) ==
    LET r0 == sp_transpose(M, 0)
    IN  IF r0.oob THEN {sp_transpose(M, g) : g \in Garbage} ELSE {r0}

Runs_spamx_transpose(M) ==
    LET r0 == spamx_transpose(M, 0)
    IN  IF r0.oob THEN {spamx_transpose(M, g) : g \in Garbage} ELSE {r0}

Runs_sp_to_dense(M) ==
    LET r0 == sp_to_dense(M, 0)
    IN  IF r0.oob THEN {sp_to_dense(M, g) : g \in Garbage} ELSE {r0}

Runs_spamx_to_dense(M) ==
    LET r0 == spamx_to_dense(M, 0)
    IN  IF r0.oob THEN {spamx_to_dense(M, g) : g \in Garbage} ELSE {r0}

Runs_sp_to_dense_transposed(M) ==
    LET r0 == sp_to_dense_transposed(M, 0)
    IN  IF r0.oob THEN {sp_to_dense_transposed(M, g) : g \in Garbage} ELSE {r0}

Runs_spamx_to_dense_transposed(M) ==
    LET r0 == spamx_to_dense_transposed(M, 0)
    IN  IF r0.oob THEN {spamx_to_dense_transposed(M, g) : g \in Garbage} ELSE {r0}

\* one call of an exported function; a matrix is consumed by one call
Run(name, r) ==
    /\ op' = name
    /\ out' = r.res
    /\ oob' = r.oob
    /\ aux' = r.aux
    /\ UNCHANGED <<sp_matrix, orig>>

Call_sp_transpose ==
    /\ op = "none"
    /\ \E r \in Runs_sp_transpose(sp_matrix) : Run("sp_transpose", r)

Call_spamx_transpose ==
    /\ op = "none"
    /\ \E r \in Runs_spamx_transpose(sp_matrix) : Run("spamx_transpose", r)

Call_sp_to_dense ==
    /\ op = "none"
    /\ \E r \in Runs_sp_to_dense(sp_matrix) : Run("sp_to_dense", r)

Call_spamx_to_dense ==
    /\ op = "none"
    /\ \E r \in Runs_spamx_to_dense(sp_matrix) : Run("spamx_to_dense", r)

Call_sp_to_dense_transposed ==
    /\ op = "none"
    /\ \E r \in Runs_sp_to_dense_transposed(sp_matrix) : Run("sp_to_dense_transposed", r)

Call_spamx_to_dense_transposed ==
    /\ op = "none"
    /\ \E r \in Runs_spamx_to_dense_transposed(sp_matrix) : Run("spamx_to_dense_transposed", r)

IsTranspose(o) == o \in {"sp_transpose", "spamx_transpose"}
IsDense(o) == o \in {"sp_to_dense", "spamx_to_dense"}
IsDenseT(o) == o \in {"sp_to_dense_transposed", "spamx_to_dense_transposed"}

\* the host passes the matrix sp_transpose returned to the next call
Reuse ==
    /\ op = "sp_transpose"
    /\ orig = NoMatrix
    /\ orig' = sp_matrix
    /\ sp_matrix' = out
    /\ op' = "none"
    /\ out' = NoResult
    /\ oob' = FALSE
    /\ aux' = NoAux

Next ==
    \/ Call_sp_transpose
    \/ Call_spamx_transpose
    \/ Call_sp_to_dense
    \/ Call_spamx_to_dense
    \/ Call_sp_to_dense_transposed
    \/ Call_spamx_to_dense_transposed
    \/ Reuse

Spec == Init /\ [][Next]_vars

TypeOK ==
    /\ op \in {"none", "sp_transpose", "spamx_transpose", "sp_to_dense",
               "spamx_to_dense", "sp_to_dense_transposed",
               "spamx_to_dense_transposed"}
    /\ oob \in BOOLEAN

\* ---- what a CSC matrix and a dense matrix denote ----

\* the (column, position) pairs of the stored entries, by the column slices
Slots(M) ==
    {s \in (0..(M.Dim[1] - 1)) \X DOMAIN M.i : M.p[s[1]] <= s[2] /\ s[2] < M.p[s[1] + 1]}

\* the stored entries as (row, col, value) triples
Stored(M) == {<<M.i[s[2]], s[1], M.x[s[2]]>> : s \in Slots(M)}

Transposed(S) == {<<t[2], t[1], t[3]>> : t \in S}

\* colPtr of length ncols + 1, starting at 0 and non-decreasing
WellFormedPtr(M) ==
    /\ DOMAIN M.p = 0..M.Dim[1]
    /\ M.p[0] = 0
    /\ \A c \in 0..(M.Dim[1] - 1) : M.p[c] <= M.p[c + 1]

\* d is the nr x nc dense matrix holding exactly the entries S
DenseOf(d, nr, nc, S) ==
    /\ d.nrow = nr
    /\ d.ncol = nc
    /\ DOMAIN d.data = 0..(nr * nc - 1)
    /\ \A r \in 0..(nr - 1), c \in 0..(nc - 1) :
         \/ \E t \in S : t[1] = r /\ t[2] = c /\ d.data[Offset(d, r, c)] = t[3]
         \/ (\A t \in S : ~(t[1] = r /\ t[2] = c)) /\ d.data[Offset(d, r, c)] = 0

NonZeroCells(d) == {k \in DOMAIN d.data : d.data[k] # 0}

IsEmpty(M) == M.Dim[0] = 0 \/ M.Dim[1] = 0 \/ Nnz(M) = 0

\* C1: for canonical M the stored entries of sp_transpose(M) are exactly the
\* triples (c, r, v) with (r, c, v) stored in M, each held in one slot: none
\* lost, duplicated or invented
Thm_C1 ==
    (op = "sp_transpose" /\ Canonical(sp_matrix)) =>
        /\ Stored(out) = Transposed(Stored(sp_matrix))
        /\ WellFormedPtr(out)
        /\ DOMAIN out.i = 0..(Nnz(sp_matrix) - 1)
        /\ DOMAIN out.x = DOMAIN out.i
        /\ Cardinality(Slots(out)) = Nnz(sp_matrix)

Wit_C1 ==
    /\ op = "sp_transpose"
    /\ Canonical(sp_matrix)
    /\ Nnz(sp_matrix) = 3
    /\ Cardinality(Stored(sp_matrix)) = 3
    /\ \E c \in 0..(sp_matrix.Dim[1] - 1) : sp_matrix.p[c + 1] - sp_matrix.p[c] = 2
    /\ \E e \in DOMAIN out.i : out.i[e] # sp_matrix.i[e]

\* C2: for canonical M every column slice of sp_transpose(M) has strictly
\* increasing row indices
Thm_C2 == (op = "sp_transpose" /\ Canonical(sp_matrix)) => Canonical(out)

Wit_C2 ==
    /\ op = "sp_transpose"
    /\ Canonical(sp_matrix)
    /\ \E c \in 0..(out.Dim[1] - 1) : out.p[c + 1] - out.p[c] >= 2
    /\ \E c \in 0..(sp_matrix.Dim[1] - 1) : sp_matrix.p[c + 1] = sp_matrix.p[c]

\* C3: for canonical M with ncols >= 1 (empty columns included) sp_to_dense(M)
\* is the nrows x ncols matrix with dense[r][c] = v for every stored (r, c, v)
\* and zero elsewhere
Claim_C3 ==
    (op = "sp_to_dense" /\ Canonical(sp_matrix) /\ sp_matrix.Dim[1] >= 1) =>
        DenseOf(out, sp_matrix.Dim[0], sp_matrix.Dim[1], Stored(sp_matrix))

\* C4: for canonical M, sp_to_dense(sp_transpose(M)) equals
\* sp_to_dense_transposed(M) cell for cell, both of shape ncols x nrows
Claim_C4 ==
    (op = "sp_to_dense" /\ orig # NoMatrix /\ Canonical(orig)) =>
        \A r \in Runs_sp_to_dense_transposed(orig) :
            /\ out = r.res
            /\ out.nrow = orig.Dim[1]
            /\ out.ncol = orig.Dim[0]

\* C5: on an empty input (nrows = 0, ncols = 0 or nnz = 0) every operation
\* touches no index outside an array and returns an empty result of the
\* right shape (swapped for the transposing operations)
Claim_C5 ==
    (op # "none" /\ IsEmpty(sp_matrix)) =>
        /\ ~oob
        /\ IsTranspose(op) =>
             /\ out.Dim = Pair(sp_matrix.Dim[1], sp_matrix.Dim[0])
             /\ WellFormedPtr(out)
             /\ Nnz(out) = 0
             /\ DOMAIN out.i = {}
             /\ DOMAIN out.x = {}
        /\ IsDense(op) => DenseOf(out, sp_matrix.Dim[0], sp_matrix.Dim[1], {})
        /\ IsDenseT(op) => DenseOf(out, sp_matrix.Dim[1], sp_matrix.Dim[0], {})

\* C6: for canonical M, sp_transpose(sp_transpose(M)) has the shape, colPtr,
\* rowIndex and values of M, position for position
Thm_C6 ==
    (op = "sp_transpose" /\ orig # NoMatrix /\ Canonical(orig)) =>
        /\ out.Dim = orig.Dim
        /\ out.p = orig.p
        /\ out.i = orig.i
        /\ out.x = orig.x

Wit_C6 ==
    /\ op = "sp_transpose"
    /\ orig # NoMatrix
    /\ Canonical(orig)
    /\ Nnz(orig) = 3
    /\ orig.Dim[0] = 2
    /\ orig.Dim[1] >= 3
    /\ sp_matrix.i # orig.i

\* C7: for well-formed M, sp_transpose(M) has the swapped shape, a colPtr of
\* length nrows + 1 that starts at 0 and is non-decreasing, and
\* colPtr'[nrows] = colPtr[ncols]
Thm_C7 ==
    (op = "sp_transpose") =>
        /\ out.Dim[0] = sp_matrix.Dim[1]
        /\ out.Dim[1] = sp_matrix.Dim[0]
        /\ WellFormedPtr(out)
        /\ DOMAIN out.p = 0..sp_matrix.Dim[0]
        /\ out.p[sp_matrix.Dim[0]] = sp_matrix.p[sp_matrix.Dim[1]]
        /\ Nnz(out) = Nnz(sp_matrix)

Wit_C7 ==
    /\ op = "sp_transpose"
    /\ ~Canonical(sp_matrix)
    /\ sp_matrix.Dim[0] = 2
    /\ sp_matrix.Dim[1] = 3
    /\ Nnz(sp_matrix) = 3
    /\ out.p[1] = 1

\* C8: for canonical M with non-zero stored values sp_to_dense(M) has exactly
\* nnz non-zero cells
Claim_C8 ==
    (op = "sp_to_dense" /\ Canonical(sp_matrix)
        /\ \A e \in DOMAIN sp_matrix.x : sp_matrix.x[e] # 0) =>
        Cardinality(NonZeroCells(out)) = Nnz(sp_matrix)

\* C9: a transpose returns the input's column labels as row labels and its
\* row labels as column labels, and leaves the input's labels as they were
Thm_C9 ==
    [][(op = "none" /\ IsTranspose(op')) =>
          /\ out'.Dimnames[0] = sp_matrix.Dimnames[1]
          /\ out'.Dimnames[1] = sp_matrix.Dimnames[0]
          /\ sp_matrix'.Dimnames = sp_matrix.Dimnames]_vars

Wit_C9 ==
    /\ IsTranspose(op)
    /\ ~sp_matrix.Dimnames[0].null
    /\ sp_matrix.Dim[0] = 2
    /\ sp_matrix.Dim[1] = 3
    /\ out.Dimnames[0] # out.Dimnames[1]
    /\ out.Dimnames[0] = sp_matrix.Dimnames[1]

\* the fields C10 compares for a CSC result
Arrays(M) == <<M.Dim, M.p, M.i, M.x>>

\* C10: on a canonical matrix the narrow-index and the wide-index operation
\* return the same shape, colPtr, rowIndex and values, resp. the same dense
\* matrix
Thm_C10 ==
    Canonical(sp_matrix) =>
        /\ op = "sp_transpose" =>
             \A r \in Runs_spamx_transpose(sp_matrix) : Arrays(out) = Arrays(r.res)
        /\ op = "spamx_transpose" =>
             \A r \in Runs_sp_transpose(sp_matrix) : Arrays(out) = Arrays(r.res)
        /\ op = "sp_to_dense" =>
             \A r \in Runs_spamx_to_dense(sp_matrix) : out = r.res
        /\ op = "spamx_to_dense" =>
             \A r \in Runs_sp_to_dense(sp_matrix) : out = r.res
        /\ op = "sp_to_dense_transposed" =>
             \A r \in Runs_spamx_to_dense_transposed(sp_matrix) : out = r.res
        /\ op = "spamx_to_dense_transposed" =>
             \A r \in Runs_sp_to_dense_transposed(sp_matrix) : out = r.res

Wit_C10 ==
    /\ op = "spamx_transpose"
    /\ Canonical(sp_matrix)
    /\ Nnz(sp_matrix) = 3
    /\ sp_matrix.Dim[0] = 2
    /\ \E c \in 0..(sp_matrix.Dim[1] - 1) : sp_matrix.p[c + 1] = sp_matrix.p[c]
    /\ out.i # sp_matrix.i

\* C11: in the scatter loops of sp_to_dense and sp_to_dense_transposed the
\* column c used for the write of entry e satisfies colPtr[c] <= e < colPtr[c+1],
\* which is the column sp_transpose's boundary-tracking loop reaches for e
Claim_C11 ==
    (op \in {"sp_to_dense", "sp_to_dense_transposed"}) =>
        \A e \in 0..(Nnz(sp_matrix) - 1) :
            /\ aux.cols[e] \in 0..(sp_matrix.Dim[1] - 1)
            /\ sp_matrix.p[aux.cols[e]] <= e
            /\ e < sp_matrix.p[aux.cols[e] + 1]
            /\ aux.cols[e] = AdvanceCid(sp_matrix.p, e, 0)

\* C12: in sp_transpose, after the scatter pass out.p[r] (r < nrows) holds
\* the end offset of transposed column r, i.e. what out.p[r+1] held after the
\* prefix-sum pass; after the restore pass out.p[0] = 0, out.p[r] is the
\* post-scatter out.p[r-1] for r in 1..nrows, and out.p[nrows] = nnz
Thm_C12 ==
    (op = "sp_transpose") =>
        /\ \A r \in 0..(sp_matrix.Dim[0] - 1) : aux.cursor[r] = aux.prefix[r + 1]
        /\ out.p[0] = 0
        /\ \A r \in 1..sp_matrix.Dim[0] : out.p[r] = aux.cursor[r - 1]
        /\ \A r \in 0..(sp_matrix.Dim[0] - 1) :
             out.p[r] = aux.prefix[r] /\ out.p[r + 1] = aux.prefix[r + 1]
        /\ out.p[sp_matrix.Dim[0]] = Nnz(sp_matrix)

Wit_C12 ==
    /\ op = "sp_transpose"
    /\ sp_matrix.Dim[0] = 2
    /\ Nnz(sp_matrix) = 3
    /\ aux.prefix[1] = 1
    /\ aux.cursor[0] = 1
    /\ aux.cursor[1] = 3
    /\ aux.cursor # out.p

\* C13: in the scatter pass of a transpose on canonical input every write
\* position pos = out.p[rid] lies in [0, nnz) and in the bucket of row rid
\* fixed by the prefix-sum pass, and the nnz positions are pairwise distinct,
\* so every slot of out.i / out.x is written exactly once
Thm_C13 ==
    (IsTranspose(op) /\ Canonical(sp_matrix)) =>
        /\ DOMAIN aux.pos = 0..(Nnz(sp_matrix) - 1)
        /\ \A e \in DOMAIN aux.pos :
             /\ aux.pos[e] \in 0..(Nnz(sp_matrix) - 1)
             /\ aux.prefix[sp_matrix.i[e]] <= aux.pos[e]
             /\ aux.pos[e] < aux.prefix[sp_matrix.i[e] + 1]
        /\ \A e1, e2 \in DOMAIN aux.pos : e1 # e2 => aux.pos[e1] # aux.pos[e2]
        /\ {aux.pos[e] : e \in DOMAIN aux.pos} = DOMAIN out.i
        /\ DOMAIN out.x = DOMAIN out.i

Wit_C13 ==
    /\ op = "sp_transpose"
    /\ Canonical(sp_matrix)
    /\ Nnz(sp_matrix) = 3
    /\ sp_matrix.Dim[0] = 2
    /\ aux.pos[0] = 2
    /\ aux.pos[1] = 0
    /\ aux.pos[2] = 1

\* C14: on an input that is well formed and free of duplicates but not sorted
\* within some column, sp_transpose still returns a canonical matrix holding
\* exactly the transposed entries; hence sp_transpose(sp_transpose(M)) is the
\* canonical (column-sorted) form of M: same shape, colPtr and entries
Thm_C14 ==
    /\ (op = "sp_transpose" /\ NoDuplicates(sp_matrix) /\ ~Canonical(sp_matrix)) =>
         /\ Canonical(out)
         /\ WellFormedPtr(out)
         /\ Stored(out) = Transposed(Stored(sp_matrix))
         /\ DOMAIN out.i = 0..(Nnz(sp_matrix) - 1)
         /\ DOMAIN out.x = DOMAIN out.i
         /\ Cardinality(Slots(out)) = Nnz(sp_matrix)
    /\ (op = "sp_transpose" /\ orig # NoMatrix /\ NoDuplicates(orig)
          /\ ~Canonical(orig)) =>
         /\ Canonical(out)
         /\ out.Dim = orig.Dim
         /\ out.p = orig.p
         /\ Stored(out) = Stored(orig)
         /\ DOMAIN out.i = DOMAIN orig.i
         /\ DOMAIN out.x = DOMAIN orig.x
         /\ out.i # orig.i

Wit_C14 ==
    /\ op = "sp_transpose"
    /\ orig # NoMatrix
    /\ NoDuplicates(orig)
    /\ ~Canonical(orig)
    /\ Nnz(orig) = 3
    /\ orig.Dim[1] >= 2
    /\ Canonical(sp_matrix)
    /\ Stored(sp_matrix) = Transposed(Stored(orig))
    /\ Stored(out) = Stored(orig)

====
